---- MODULE Spec2Model ----
(***************************************************************************)
(* Model of the cok-django site: the featured-image variant resolver       *)
(* (blog/image_variants.py), the storage it talks to, and the Post         *)
(* properties that call it (blog/models.py).                               *)
(*                                                                         *)
(* Strings that the code takes apart or puts together (storage names) are  *)
(* sequences of one-character strings, so that pathlib's splitting and the *)
(* f-string formatting are computed and not assumed.                       *)
(***************************************************************************)
EXTENDS Integers, Sequences, FiniteSets, TLC

\* ------------------------------------------------------------------ bounds
MaxTime == 2        \* the storage clock runs 0..MaxTime
MaxVer  == 2        \* a source image is re-uploaded at most MaxVer - 1 times
MaxFiles == 4       \* no new request starts once the storage holds MaxFiles files

\* --------------------------------------------------------------- constants
JPEG_QUALITY == 88
FEATURED_IMAGE_CARD_SIZE == <<800, 450>>
FEATURED_IMAGE_HERO_SIZE == <<1600, 900>>

\* ------------------------------------------------------------------- state
VARIABLES
    files,      \* the storage: stored name -> [content, mtime]
    now,        \* the storage clock that stamps modification times
    backend,    \* which kind of storage backend the site runs on
    call,       \* per request: the position and locals of its resolver call
    nameOf,     \* history: <<key, derived name>> of the first key resolved
    settled,    \* history: <<key>> of the last call that returned a derived URL
    pipe,       \* the image transform: the image at its current stage
    profiles,   \* the resume_profile table: pk -> row
    pcall,      \* per admin request: the position and locals of a Profile.save
    posts,      \* the blog_post table: pk -> row
    inst,       \* the Post instance an editor holds in memory
    comments,   \* the blog_comment table: pk -> row
    req,        \* the request at the canonical-host middleware, and its answer
    resp        \* the outcome of the last public or admin request

imageVars == <<files, now, backend, call, nameOf, settled>>
siteVars  == <<pipe, profiles, pcall, posts, inst, comments, req, resp>>

vars == <<files, now, backend, call, nameOf, settled, pipe, profiles, pcall, posts, inst,
          comments, req, resp>>

\* ----------------------------------------------------------------- strings
Slash == "/"
Dot   == "."

Digits == <<"0", "1", "2", "3", "4", "5", "6", "7", "8", "9">>

\* str(n) of a non-negative int, as the f-string formats width and height
RECURSIVE IntToStr(_)
IntToStr(n) ==
    IF n < 10 THEN <<Digits[n + 1]>>
    ELSE IntToStr(n \div 10) \o <<Digits[(n % 10) + 1]>>

\* index of the last occurrence of ch in s, 0 when there is none (str.rfind + 1)
RECURSIVE LastIndexOf(_, _)
LastIndexOf(s, ch) ==
    IF Len(s) = 0 THEN 0
    ELSE IF s[Len(s)] = ch THEN Len(s)
    ELSE LastIndexOf(SubSeq(s, 1, Len(s) - 1), ch)

\* pathlib: Path(p).parent as a string; "" stands for "." (joining onto "."
\* adds no prefix)
PathParent(p) ==
    LET i == LastIndexOf(p, Slash)
    IN  IF i = 0 THEN <<>> ELSE SubSeq(p, 1, i - 1)

\* pathlib: Path(p).name
PathName(p) ==
    LET i == LastIndexOf(p, Slash)
    IN  SubSeq(p, i + 1, Len(p))

\* pathlib: Path(p).stem, the name without its last suffix; a leading or a
\* trailing dot starts no suffix
PathStem(p) ==
    LET nm == PathName(p)
        i  == LastIndexOf(nm, Dot)
    IN  IF 1 < i /\ i < Len(nm) THEN SubSeq(nm, 1, i - 1) ELSE nm

\* pathlib: str(parent / child)
PathJoin(parent, child) ==
    IF parent = <<>> THEN child ELSE parent \o <<Slash>> \o child

VariantsDir == <<"_", "v", "a", "r", "i", "a", "n", "t", "s">>
JpgSuffix   == <<".", "j", "p", "g">>

\* variation: a name that avoids names already taken in the storage
_variant_file_name_Available(source_name, variant_name, width, height) ==
    LET name == PathJoin(PathJoin(PathParent(source_name), VariantsDir),
                    PathStem(source_name) \o <<"_", "_">> \o variant_name \o <<"_">>
                    \o IntToStr(width) \o <<"x">> \o IntToStr(height) \o JpgSuffix)
    IN  IF name \in DOMAIN files
        THEN SubSeq(name, 1, Len(name) - 4) \o <<"_", "1">> \o JpgSuffix
        ELSE name

_variant_file_name(source_name, variant_name, width, height) ==
    PathJoin(PathJoin(PathParent(source_name), VariantsDir),
             PathStem(source_name) \o <<"_", "_">> \o variant_name \o <<"_">>
             \o IntToStr(width) \o <<"x">> \o IntToStr(height) \o JpgSuffix)


\* ----------------------------------------------------------------- storage
\* storage.url(name); BaseUrl stands for the storage's base URL
BaseUrl == "MEDIA_URL:"
StorageUrl(name) == <<BaseUrl>> \o name

\* variation: an existence check that never finds the file
StorageExists_Never(stored, name) == FALSE

\* storage.exists(name)
StorageExists(stored, name) == name \in DOMAIN stored

\* os.path.splitext on a stored name: the index of the extension's dot
ExtIndex(name) ==
    LET i == LastIndexOf(name, Dot)
    IN  IF i > LastIndexOf(name, Slash) + 1 THEN i ELSE Len(name) + 1

AltName(name, k) ==
    SubSeq(name, 1, ExtIndex(name) - 1) \o <<"_">> \o IntToStr(k)
        \o SubSeq(name, ExtIndex(name), Len(name))

RECURSIVE FirstFreeAlt(_, _, _)
FirstFreeAlt(stored, name, k) ==
    IF AltName(name, k) \notin DOMAIN stored THEN AltName(name, k)
    ELSE FirstFreeAlt(stored, name, k + 1)

\* Storage.save never overwrites: it stores under get_available_name(name),
\* which is the name itself when free and else the name with a random token
\* before the extension (the token is modelled by the first unused number)
get_available_name(stored, name) ==
    IF name \notin DOMAIN stored THEN name ELSE FirstFreeAlt(stored, name, 1)

\* storage.save(name, ContentFile(content)) at clock t
StorageSave(stored, name, content, t) ==
    LET actual == get_available_name(stored, name)
    IN  [n \in DOMAIN stored \cup {actual} |->
            IF n = actual THEN [content |-> content, mtime |-> t] ELSE stored[n]]

\* storage.delete(name); deleting a missing file is not an error
StorageDelete(stored, name) ==
    [n \in DOMAIN stored \ {name} |-> stored[n]]

\* the three kinds of backend the capability test tells apart:
\*   "fs"          path() returns real paths (FileSystemStorage)
\*   "path_raises" path() exists but raises NotImplementedError (base Storage)
\*   "no_path"     the object has no callable path attribute
Backends == {"fs", "path_raises", "no_path"}

_storage_supports_paths(b) == b # "no_path"

\* variation: a failing path() counts as stale, like a failing getmtime
_is_older_than_source_RaiseIsStale(b, stored, source_name, variant_name) ==
    IF b # "fs" THEN TRUE
    ELSE IF variant_name \notin DOMAIN stored \/ source_name \notin DOMAIN stored
         THEN TRUE
         ELSE stored[variant_name].mtime < stored[source_name].mtime

\* variation: the comparison the wrong way round
_is_older_than_source_Reversed(b, stored, source_name, variant_name) ==
    IF b # "fs" THEN FALSE
    ELSE IF variant_name \notin DOMAIN stored \/ source_name \notin DOMAIN stored
         THEN TRUE
         ELSE stored[variant_name].mtime > stored[source_name].mtime

\* variation: the mtime test never reports a stale file
_is_older_than_source_Never(b, stored, source_name, variant_name) == FALSE

_is_older_than_source(b, stored, source_name, variant_name) ==
    IF b # "fs" THEN FALSE
    ELSE IF variant_name \notin DOMAIN stored \/ source_name \notin DOMAIN stored
         THEN TRUE
         ELSE stored[variant_name].mtime < stored[source_name].mtime

\* ------------------------------------------------------------------ images
\* a stored source image, identified by its upload generation; its pixels are
\* those of the upload the tests make (tests.py:77-84)
SourceContent(ver) == [kind |-> "source", ver |-> ver, size |-> <<1200, 800>>, quality |-> 0]

NoContent == [kind |-> "none", ver |-> 0, size |-> <<0, 0>>, quality |-> 0]

\* storage.open(source_name) raises when there is no such file
BuildRaises(stored, source_name) == source_name \notin DOMAIN stored

\* ------------------------------------------------------- the image transform
\* A decoded image: its size, its PIL mode, the EXIF orientation tag it still
\* carries (1 = upright) and one sample pixel from the middle of the picture,
\* as its colour and its opacity (255 opaque, 0 fully transparent).  For mode
\* "P" the colour is the palette entry and the opacity its tRNS entry.
Pixel(rgb, a) == [rgb |-> rgb, a |-> a]

MakeImage(w, h, mode, orientation, px) ==
    [width |-> w, height |-> h, mode |-> mode, orientation |-> orientation, px |-> px]

BrokenImage == MakeImage(0, 0, "error", 1, Pixel("none", 0))

\* line 58, ImageOps.exif_transpose: orientations 5..8 turn the picture by a
\* quarter, which swaps width and height; the tag is cleared
exif_transpose(image) ==
    IF image.orientation \in {5, 6, 7, 8}
    THEN [image EXCEPT !.width = image.height, !.height = image.width, !.orientation = 1]
    ELSE [image EXCEPT !.orientation = 1]

\* ImageOps.fit's crop box for centering (0.5, 0.5) and bleed 0.  Horizontal
\* coordinates are in units of 1 / FitScaleX pixel and vertical ones in units
\* of 1 / FitScaleY pixel, so that the quotients stay integers:
\* <<left, top, right, bottom>>
FitScaleX(size) == 2 * size[2]
FitScaleY(size) == 2 * size[1]

FitCropBox(image, size) ==
    LET w  == image.width
        h  == image.height
        tw == size[1]
        th == size[2]
        \* live_size_ratio compared with output_ratio, cross-multiplied
        cw == IF w * th = tw * h THEN w * FitScaleX(size)
              ELSE IF w * th >= tw * h THEN 2 * tw * h          \* output_ratio * h
              ELSE w * FitScaleX(size)
        ch == IF w * th = tw * h THEN h * FitScaleY(size)
              ELSE IF w * th >= tw * h THEN h * FitScaleY(size)
              ELSE 2 * th * w                                   \* w / output_ratio
        left == (w * FitScaleX(size) - cw) \div 2
        top  == (h * FitScaleY(size) - ch) \div 2
    IN  <<left, top, left + cw, top + ch>>

\* Image.resize(size, resample, box): the result has exactly the requested
\* size; a box that leaves the image, or an empty size, raises ValueError
Resize(image, size, box, sx, sy) ==
    IF \/ size[1] <= 0 \/ size[2] <= 0
       \/ box[1] < 0 \/ box[2] < 0
       \/ box[3] > image.width * sx \/ box[4] > image.height * sy
       \/ box[3] <= box[1] \/ box[4] <= box[2]
    THEN BrokenImage
    ELSE [image EXCEPT !.width = size[1], !.height = size[2]]

\* variation: scale the whole picture into the box, keeping its proportions
\* (what ImageOps.contain does)
ImageOpsFit_Contain(image, size) ==
    IF image.width * size[2] >= size[1] * image.height
    THEN [image EXCEPT !.width = size[1],
                       !.height = (image.height * size[1]) \div image.width]
    ELSE [image EXCEPT !.width = (image.width * size[2]) \div image.height,
                       !.height = size[2]]

\* lines 59-64: ImageOps.fit(image, size, method=LANCZOS, centering=(0.5, 0.5))
ImageOpsFit(image, size) ==
    Resize(image, size, FitCropBox(image, size), FitScaleX(size), FitScaleY(size))

\* lines 75-79: paste the picture onto a white RGB background through its
\* alpha channel
CompositeOnWhite(image) ==
    [image EXCEPT !.mode = "RGB",
                  !.px = IF image.px.a = 0 THEN Pixel("white", 255)
                         ELSE Pixel(image.px.rgb, 255)]

\* Image.convert to a mode with alpha: a palette's transparency becomes the
\* alpha channel; Image.convert to "RGB": the alpha channel is dropped and
\* the colour values stay as they are
ConvertMode(image, mode) ==
    IF mode \in {"RGBA", "LA"}
    THEN [image EXCEPT !.mode = mode]
    ELSE [image EXCEPT !.mode = mode, !.px = Pixel(image.px.rgb, 255)]

\* lines 71-84
_convert_to_rgb(image) ==
    IF image.mode = "RGB" THEN image
    ELSE IF image.mode \in {"RGBA", "LA"} THEN CompositeOnWhite(image)
    ELSE IF image.mode = "P" THEN ConvertMode(ConvertMode(image, "RGBA"), "RGB")
    ELSE ConvertMode(image, "RGB")

\* lines 66-68 and the decoding of what was written: a JPEG of the same size,
\* three channels, no alpha
EncodeJpeg(image) == [image EXCEPT !.mode = "RGB", !.px = Pixel(image.px.rgb, 255)]

\* lines 57-68 on a decoded image
TransformImage(image, size) ==
    LET cropped == ImageOpsFit(exif_transpose(image), size)
    IN  IF cropped = BrokenImage THEN BrokenImage
        ELSE EncodeJpeg(_convert_to_rgb(cropped))

\* the picture a stored source decodes to
DecodeSource(content) ==
    MakeImage(content.size[1], content.size[2], "RGB", 1, Pixel("grey", 255))

\* the encoded bytes: a function of the source's pixels and the target size
\* only (centering is the constant (0.5, 0.5))
_build_variant_content(stored, source_name, size) ==
    LET out == TransformImage(DecodeSource(stored[source_name].content), size)
    IN  [kind |-> "JPEG", ver |-> stored[source_name].content.ver,
         size |-> <<out.width, out.height>>, quality |-> JPEG_QUALITY]

\* ---------------------------------------------------------------- requests
Procs    == {1, 2}      \* the request handlers that may run at once
SeqProcs == {1}         \* a site served by one handler at a time

SourceA == <<"b", "/", "a", ".", "j", "p", "g">>      \* "b/a.jpg"
SourceB == <<"b", "/", "a", ".", "p", "n", "g">>      \* "b/a.png"
Sources == {SourceA, SourceB}

CardName == <<"c", "a", "r", "d">>
HeroName == <<"h", "e", "r", "o">>

\* what a caller may pass as image_field_file: no file set (falsy), a truthy
\* object whose name is empty, or a field file naming a stored source
NoImage        == [truthy |-> FALSE, name |-> <<>>]
EmptyNameImage == [truthy |-> TRUE, name |-> <<>>]
ImageOf(n)     == [truthy |-> TRUE, name |-> n]
Images         == {NoImage, EmptyNameImage} \cup {ImageOf(n) : n \in Sources}

\* the calls a request may make: (image_field_file, variant_name, size)
Requests == {<<i, CardName, FEATURED_IMAGE_CARD_SIZE>> : i \in Images}

\* the calls of two requests that render the same post's card at once
SameKeyRequests == {<<ImageOf(SourceA), CardName, FEATURED_IMAGE_CARD_SIZE>>}

\* variation: the empty-name test of line 25 left out
IsAbsent_NoNameTest(image) == ~image.truthy

\* lines 21-26: `not image_field_file` or `not source_name`

IsAbsent(image) == ~image.truthy \/ image.name = <<>>

IdleCall ==
    [pc |-> "idle", via |-> "none", image |-> NoImage, variant_name |-> <<>>,
     size |-> <<0, 0>>, vfn |-> <<>>, needs |-> FALSE, miss |-> FALSE,
     built |-> NoContent, result |-> <<>>, ops |-> <<>>, failedAt |-> "none",
     token |-> <<>>, focus |-> <<>>, centering |-> <<>>,
     dom0 |-> {}, srcVer |-> 0]

KeyOf(c) == [source |-> c.image.name, variant |-> c.variant_name, size |-> c.size]

Raised(exc) == <<"raise:", exc>>

\* variation: the except clause falls through to the derived URL
ExceptResult_Derived(c) == StorageUrl(c.vfn)

\* line 43: the except clause answers with the original image's URL

ExceptResult(c) == StorageUrl(c.image.name)

Fail(p, where) ==
    call' = [call EXCEPT ![p] = [@ EXCEPT !.pc = "done", !.failedAt = where,
                                          !.result = ExceptResult(call[p])]]

\* -------------------------------------------------------------------- Init
\* the storage right after the two posts' images were uploaded
ImageInit ==
    /\ files = [n \in Sources |-> [content |-> SourceContent(1), mtime |-> 0]]
    /\ now = 0
    /\ call = [p \in Procs |-> IdleCall]
    /\ nameOf = <<>>
    /\ settled = <<>>

\* no transform, no admin request and no page request under way; both tables
\* empty
IdlePipe == [stage |-> "idle", source |-> BrokenImage, target |-> <<0, 0>>,
             image |-> BrokenImage]

NoRows == <<>>

IdleSave == [pc |-> "idle", pk |-> 0, is_active |-> FALSE,
             row |-> [full_name |-> "", is_active |-> FALSE]]

\* texts are kept by their length and whether they end in the "..." of a cut
Text(len) == [len |-> len, ellipsis |-> FALSE]

NoTime == 0 - 1     \* a null DateTimeField

NoInstance ==
    [loaded |-> FALSE, pk |-> 0, title |-> [name |-> "", len |-> 0], slug |-> "",
     status |-> "draft", published_at |-> NoTime,
     content_markdown |-> <<>>, content |-> <<>>,
     excerpt |-> Text(0), meta_description |-> Text(0), meta_title |-> Text(0),
     saves |-> 0]

\* a response: the view and the slug in its URL ("" for none), the HTTP
\* status, the pks of the rows it shows, the kind of body, and the exception
\* raised inside the handler ("" for none)
Response(view, status, shown, disposition, raised) ==
    [view |-> view, arg |-> "", status |-> status, shown |-> shown,
     disposition |-> disposition, raised |-> raised]

NoRequest ==
    [stage |-> "none", CANONICAL_HOST |-> <<>>, DEBUG |-> FALSE, host |-> <<>>,
     path |-> <<>>, query |-> <<>>, secure |-> FALSE, answer |-> "none",
     location |-> <<>>, hops |-> 0]

NoResponse == Response("none", 0, {}, "none", "")

SiteIdle ==
    /\ pipe = IdlePipe
    /\ profiles = NoRows
    /\ pcall = [p \in Procs |-> IdleSave]
    /\ posts = NoRows
    /\ inst = NoInstance
    /\ comments = NoRows
    /\ req = NoRequest
    /\ resp = NoResponse

Init ==
    /\ ImageInit
    /\ backend \in Backends
    /\ SiteIdle

\* ----------------------------------------------- get_cropped_image_variant
\* lines 14-30: the guards on the image and the derived name
Enter(p, via, image, variant_name, size) ==
    LET c0 == [IdleCall EXCEPT !.via = via, !.image = image,
                               !.variant_name = variant_name, !.size = size,
                               !.dom0 = DOMAIN files,
                               !.srcVer = IF image.name \in DOMAIN files
                                          THEN files[image.name].content.ver ELSE 0]
    IN  IF IsAbsent(image)
        THEN /\ call' = [call EXCEPT ![p] = [c0 EXCEPT !.pc = "done", !.result = <<>>]]
             /\ settled' = <<>>
             /\ UNCHANGED nameOf
        ELSE LET name == _variant_file_name(image.name, variant_name, size[1], size[2])
                 key  == KeyOf(c0)
             IN  /\ call' = [call EXCEPT ![p] = [c0 EXCEPT !.pc = "exists", !.vfn = name]]
                 /\ nameOf' = IF nameOf = <<>> THEN <<[key |-> key, name |-> name]>>
                              ELSE nameOf
                 /\ settled' = IF settled = <<key>> THEN settled ELSE <<>>

Resolve(p, requests) ==
    /\ call[p].pc = "idle"
    /\ Cardinality(DOMAIN files) < MaxFiles
    /\ \E r \in requests : Enter(p, "resolve", r[1], r[2], r[3])
    /\ UNCHANGED <<files, now, backend>>
    /\ UNCHANGED siteVars

\* lines 32-33: storage.exists(variant_file_name) and the capability test
CheckExists(p) ==
    /\ call[p].pc = "exists"
    /\ LET missing == ~StorageExists(files, call[p].vfn)
       IN  call' = [call EXCEPT ![p] = [@ EXCEPT
                !.needs = missing, !.miss = missing,
                !.pc = IF ~missing /\ _storage_supports_paths(backend) THEN "older"
                       ELSE IF missing THEN "build" ELSE "return"]]
    /\ UNCHANGED <<files, now, backend, nameOf, settled>>
    /\ UNCHANGED siteVars

\* line 34: needs_regeneration = _is_older_than_source(...)
CheckOlder(p) ==
    /\ call[p].pc = "older"
    /\ LET older == _is_older_than_source(backend, files, call[p].image.name, call[p].vfn)
       IN  call' = [call EXCEPT ![p] = [@ EXCEPT
                !.needs = older, !.pc = IF older THEN "build" ELSE "return"]]
    /\ UNCHANGED <<files, now, backend, nameOf, settled>>
    /\ UNCHANGED siteVars

\* variation: the stale file is removed before the transform runs
Build_DeleteFirst(p) ==
    /\ call[p].pc = "build"
    /\ files' = StorageDelete(files, call[p].vfn)
    /\ \/ /\ ~BuildRaises(files, call[p].image.name)
          /\ call' = [call EXCEPT ![p] = [@ EXCEPT !.pc = "exists2",
                 !.built = _build_variant_content(files, call[p].image.name, call[p].size)]]
       \/ Fail(p, "build")
    /\ UNCHANGED <<now, backend, nameOf, settled>>
    /\ UNCHANGED siteVars

\* line 38: open and decode the source, transform, encode; any of it may raise
\* (a missing, unreadable or corrupt source, or a failing encoder)
Build(p) ==
    /\ call[p].pc = "build"
    /\ \/ /\ ~BuildRaises(files, call[p].image.name)
          /\ call' = [call EXCEPT ![p] = [@ EXCEPT !.pc = "exists2",
                 !.built = _build_variant_content(files, call[p].image.name, call[p].size)]]
       \/ Fail(p, "build")
    /\ UNCHANGED <<files, now, backend, nameOf, settled>>
    /\ UNCHANGED siteVars

\* line 39: the second storage.exists, inside the try
CheckExistsAgain(p) ==
    /\ call[p].pc = "exists2"
    /\ \/ call' = [call EXCEPT ![p] = [@ EXCEPT
                !.pc = IF StorageExists(files, call[p].vfn) THEN "delete" ELSE "save"]]
       \/ Fail(p, "exists")
    /\ UNCHANGED <<files, now, backend, nameOf, settled>>
    /\ UNCHANGED siteVars

\* variation: a failing delete has already removed the file
Delete_RemovesThenFails(p) ==
    /\ call[p].pc = "delete"
    /\ \/ /\ files' = StorageDelete(files, call[p].vfn)
          /\ call' = [call EXCEPT ![p] = [@ EXCEPT !.pc = "save",
                 !.ops = Append(@, <<"delete", call[p].vfn>>)]]
       \/ /\ Fail(p, "delete")
          /\ files' = StorageDelete(files, call[p].vfn)
    /\ UNCHANGED <<now, backend, nameOf, settled>>
    /\ UNCHANGED siteVars

\* line 40: storage.delete(variant_file_name)
Delete(p) ==
    /\ call[p].pc = "delete"
    /\ \/ /\ files' = StorageDelete(files, call[p].vfn)
          /\ call' = [call EXCEPT ![p] = [@ EXCEPT !.pc = "save",
                 !.ops = Append(@, <<"delete", call[p].vfn>>)]]
       \/ /\ Fail(p, "delete")
          /\ UNCHANGED files
    /\ UNCHANGED <<now, backend, nameOf, settled>>
    /\ UNCHANGED siteVars

\* line 41: storage.save(variant_file_name, ContentFile(variant_content))
Save(p) ==
    /\ call[p].pc = "save"
    /\ \/ /\ files' = StorageSave(files, call[p].vfn, call[p].built, now)
          /\ call' = [call EXCEPT ![p] = [@ EXCEPT !.pc = "return",
                 !.ops = Append(@, <<"save", get_available_name(files, call[p].vfn)>>)]]
       \/ /\ Fail(p, "save")
          /\ UNCHANGED files
    /\ UNCHANGED <<now, backend, nameOf, settled>>
    /\ UNCHANGED siteVars

\* line 45: return storage.url(variant_file_name)
Return(p) ==
    /\ call[p].pc = "return"
    /\ call' = [call EXCEPT ![p] = [@ EXCEPT !.pc = "done",
                                            !.result = StorageUrl(call[p].vfn)]]
    /\ settled' = IF /\ call[p].image.name \in DOMAIN files
                      /\ files[call[p].image.name].content.ver = call[p].srcVer
                   THEN <<KeyOf(call[p])>> ELSE <<>>
    /\ UNCHANGED <<files, now, backend, nameOf>>
    /\ UNCHANGED siteVars

\* ------------------------------------------------------- Post (models.py)
\* a post as far as its featured image goes; the image is a Django field
\* file, which is truthy exactly when it has a name
Posts ==
    [featured_image : {NoImage, ImageOf(SourceA)},
     featured_image_focus_x : {0, 30, 100},
     featured_image_focus_y : {50}]

Min(a, b) == IF a < b THEN a ELSE b
Max(a, b) == IF a > b THEN a ELSE b

\* `value or 50`: Python takes 50 for every falsy value, 0 included
Or50(value) == IF value = 0 THEN 50 ELSE value

\* the fractions are kept as hundredths
_featured_image_crop_centering(post) ==
    <<Max(0, Min(100, Or50(post.featured_image_focus_x))),
      Max(0, Min(100, Or50(post.featured_image_focus_y)))>>

_featured_image_focus_token(post) ==
    <<"f", "x">> \o IntToStr(Max(0, Min(100, Or50(post.featured_image_focus_x))))
        \o <<"_", "f", "y">> \o IntToStr(Max(0, Min(100, Or50(post.featured_image_focus_y))))

\* the parameters get_cropped_image_variant declares (image_variants.py:14)
ResolverParams == <<"image_field_file", "variant_name", "size">>

\* Python's argument binding: a call raises TypeError when it passes too many
\* positionals, a keyword that is no parameter, a parameter twice, or leaves
\* a parameter without a value
CallRaisesTypeError(params, npos, kwargs) ==
    \/ npos > Len(params)
    \/ \E k \in DOMAIN kwargs : \A i \in 1..Len(params) : params[i] # k
    \/ \E i \in 1..Min(npos, Len(params)) : params[i] \in DOMAIN kwargs
    \/ \E i \in (npos + 1)..Len(params) : params[i] \notin DOMAIN kwargs

\* the body shared by featured_image_card_url and featured_image_hero_url
FeaturedImageUrl(p, post, via, variant_name, size) ==
    /\ call[p].pc = "idle"
    /\ Cardinality(DOMAIN files) < MaxFiles
    /\ LET kwargs == [variant_name |-> variant_name, size |-> size,
                      centering |-> _featured_image_crop_centering(post),
                      version_token |-> _featured_image_focus_token(post)]
           c0 == [IdleCall EXCEPT !.via = via, !.image = post.featured_image,
                                  !.variant_name = variant_name, !.size = size,
                                  !.token = kwargs.version_token,
                                  !.focus = <<post.featured_image_focus_x,
                                              post.featured_image_focus_y>>,
                                  !.centering = kwargs.centering,
                                  !.dom0 = DOMAIN files]
       IN  IF ~post.featured_image.truthy
           THEN /\ call' = [call EXCEPT ![p] = [c0 EXCEPT !.pc = "done", !.result = <<>>]]
                /\ settled' = <<>>
                /\ UNCHANGED nameOf
           ELSE IF CallRaisesTypeError(ResolverParams, 1, kwargs)
           THEN /\ call' = [call EXCEPT ![p] = [c0 EXCEPT !.pc = "done",
                                                         !.result = Raised("TypeError")]]
                /\ settled' = <<>>
                /\ UNCHANGED nameOf
           ELSE Enter(p, via, post.featured_image, kwargs.variant_name, kwargs.size)
    /\ UNCHANGED <<files, now, backend>>
    /\ UNCHANGED siteVars

featured_image_card_url(p) ==
    \E post \in Posts :
        FeaturedImageUrl(p, post, "card", CardName, FEATURED_IMAGE_CARD_SIZE)

featured_image_hero_url(p) ==
    \E post \in Posts :
        FeaturedImageUrl(p, post, "hero", HeroName, FEATURED_IMAGE_HERO_SIZE)

\* the caller takes the result; the handler is free for the next request
Finish(p) ==
    /\ call[p].pc = "done"
    /\ call' = [call EXCEPT ![p] = IdleCall]
    /\ UNCHANGED <<files, now, backend, nameOf, settled>>
    /\ UNCHANGED siteVars

\* ------------------------------------------------------------- environment
\* time passes on the storage clock
Tick ==
    /\ now < MaxTime
    /\ now' = now + 1
    /\ UNCHANGED <<files, backend, call, nameOf, settled>>
    /\ UNCHANGED siteVars

\* an editor replaces a source image
Upload(sources) ==
    /\ \E s \in sources :
          /\ files[s].content.ver < MaxVer
          /\ files' = [files EXCEPT ![s] =
                 [content |-> SourceContent(files[s].content.ver + 1), mtime |-> now]]
    /\ settled' = <<>>
    /\ UNCHANGED <<now, backend, call, nameOf>>
    /\ UNCHANGED siteVars

Step(p) ==
    \/ CheckExists(p)
    \/ CheckOlder(p)
    \/ Build(p)
    \/ CheckExistsAgain(p)
    \/ Delete(p)
    \/ Save(p)
    \/ Return(p)
    \/ Finish(p)

Next ==
    \/ \E p \in SeqProcs : Resolve(p, Requests) \/ Step(p)
    \/ \E p \in SeqProcs : featured_image_card_url(p) \/ featured_image_hero_url(p)
    \/ Tick
    \/ Upload(Sources)

Spec == Init /\ [][Next]_vars

NextConc ==
    \/ \E p \in Procs : Resolve(p, SameKeyRequests) \/ Step(p)
    \/ Tick
    \/ Upload({SourceA})

SpecConc == Init /\ [][NextConc]_vars

\* ----------------------------------------------- the transform, step by step
MaxSide   == 3      \* small source pictures have sides 1..MaxSide
MaxTarget == 2      \* small target boxes have sides 1..MaxTarget

SourceSides == (1..MaxSide) \cup {800, 1200}
SourceSizes == SourceSides \X SourceSides
TargetSizes == {FEATURED_IMAGE_CARD_SIZE, FEATURED_IMAGE_HERO_SIZE}
                   \cup ((1..MaxTarget) \X (1..MaxTarget))
Orientations == 1..8
Colours == {"black", "red"}
AlphaModes == {"RGBA", "LA"}
\* the sample pixels a mode can hold: only the alpha modes and a palette with
\* a transparency entry can hold a transparent one
ModePixels ==
    ({"RGB", "L", "CMYK"} \X {Pixel(c, 255) : c \in Colours})
        \cup ((AlphaModes \cup {"P"}) \X {Pixel(c, a) : c \in Colours, a \in {0, 255}})

SourceImages ==
    {MakeImage(sz[1], sz[2], mp[1], o, mp[2]) :
        sz \in SourceSizes, mp \in ModePixels, o \in Orientations}

TransformVarsInit ==
    /\ ImageInit
    /\ backend = "fs"
    /\ profiles = NoRows
    /\ pcall = [p \in Procs |-> IdleSave]
    /\ posts = NoRows
    /\ inst = NoInstance
    /\ comments = NoRows
    /\ req = NoRequest
    /\ resp = NoResponse

InitTransform ==
    /\ TransformVarsInit
    /\ \E image \in SourceImages, size \in TargetSizes :
           pipe = [stage |-> "opened", source |-> image, target |-> size,
                   image |-> image]

PipeStep(from, to, image) ==
    /\ pipe.stage = from
    /\ pipe' = [pipe EXCEPT !.stage = IF image = BrokenImage THEN "error" ELSE to,
                            !.image = image]
    /\ UNCHANGED <<imageVars, comments, req, profiles, pcall, posts, inst, resp>>

\* line 58
ExifTransposeStep == PipeStep("opened", "upright", exif_transpose(pipe.image))
\* lines 59-64
FitStep == PipeStep("upright", "fitted", ImageOpsFit(pipe.image, pipe.target))
\* line 65
ConvertStep == PipeStep("fitted", "rgb", _convert_to_rgb(pipe.image))
\* lines 66-68
EncodeStep == PipeStep("rgb", "encoded", EncodeJpeg(pipe.image))

NextTransform ==
    \/ ExifTransposeStep
    \/ FitStep
    \/ ConvertStep
    \/ EncodeStep

SpecTransform == InitTransform /\ [][NextTransform]_vars

\* ------------------------------------------------- Profile (resume/models.py)
MaxProfiles == 3    \* the resume_profile table holds at most this many rows

ProfilePks == 1..MaxProfiles
Names == {"Ann", "Bob"}
NoPk == 0           \* the pk of an instance that was never saved

\* the site with empty tables and one storage backend
InitSite ==
    /\ ImageInit
    /\ backend = "fs"
    /\ SiteIdle

NoRequestRunning == \A p \in Procs : pcall[p].pc = "idle"

AdminResponse(action, level) == Response(action, 200, {}, level, "")

\* QuerySet.update(is_active=False) on the rows in pks
UpdateInactive(rows, pks) ==
    [k \in DOMAIN rows |->
        IF k \in pks THEN [rows[k] EXCEPT !.is_active = FALSE] ELSE rows[k]]

\* Profile.objects.filter(is_active=True).exclude(pk=pk)
OtherActive(rows, pk) == {k \in DOMAIN rows : rows[k].is_active /\ k # pk}

\* Model.save of an instance: a new row under the next pk, or the whole row
\* rewritten from the instance
NextPk(rows) == Cardinality(DOMAIN rows) + 1

WriteRow(rows, pk, row) ==
    IF pk = NoPk \/ pk \notin DOMAIN rows
    THEN [k \in DOMAIN rows \cup {NextPk(rows)} |->
             IF k \in DOMAIN rows THEN rows[k] ELSE row]
    ELSE [rows EXCEPT ![pk] = row]

\* instance.save() is called: the instance is a new one, or one loaded from
\* the table and edited
ProfileSaveCalled(p, pk, row) ==
    pcall' = [pcall EXCEPT ![p] = [pc |-> "deactivate", pk |-> pk,
                                   is_active |-> row.is_active, row |-> row]]

\* the admin's add and change forms: a profile is built or edited and saved
SaveProfileForm(p) ==
    /\ NoRequestRunning
    /\ \E pk \in DOMAIN profiles \cup {NoPk}, name \in Names, active \in BOOLEAN :
          /\ pk = NoPk => Cardinality(DOMAIN profiles) < MaxProfiles
          /\ ProfileSaveCalled(p, pk, [full_name |-> name, is_active |-> active])
    /\ resp' = AdminResponse("change_form", "info")
    /\ UNCHANGED <<imageVars, comments, req, pipe, profiles, posts, inst>>

\* variation: save without the deactivation of the others
ProfileDeactivateOthers_Skipped(p) ==
    /\ pcall[p].pc = "deactivate"
    /\ pcall' = [pcall EXCEPT ![p].pc = "write"]
    /\ UNCHANGED <<imageVars, comments, req, pipe, profiles, posts, inst, resp>>

\* lines 81-82
ProfileDeactivateOthers(p) ==
    /\ pcall[p].pc = "deactivate"
    /\ profiles' = IF pcall[p].is_active
                   THEN UpdateInactive(profiles, OtherActive(profiles, pcall[p].pk))
                   ELSE profiles
    /\ pcall' = [pcall EXCEPT ![p].pc = "write"]
    /\ UNCHANGED <<imageVars, comments, req, pipe, posts, inst, resp>>

\* line 83: super().save()
ProfileWrite(p) ==
    /\ pcall[p].pc = "write"
    /\ profiles' = WriteRow(profiles, pcall[p].pk, pcall[p].row)
    /\ pcall' = [pcall EXCEPT ![p] = IdleSave]
    /\ UNCHANGED <<imageVars, comments, req, pipe, posts, inst, resp>>

\* admin.py lines 91-105: more than one selected row is refused; otherwise
\* the selected profile is loaded, set active and saved
make_active(p) ==
    /\ NoRequestRunning
    /\ \E queryset \in (SUBSET DOMAIN profiles) \ {{}} :
          IF Cardinality(queryset) > 1
          THEN /\ resp' = AdminResponse("make_active", "error")
               /\ UNCHANGED pcall
          ELSE \E pk \in queryset :
                  /\ ProfileSaveCalled(p, pk, [profiles[pk] EXCEPT !.is_active = TRUE])
                  /\ resp' = AdminResponse("make_active", "info")
    /\ UNCHANGED <<imageVars, comments, req, pipe, profiles, posts, inst>>

\* admin.py lines 107-111
make_inactive ==
    /\ NoRequestRunning
    /\ \E queryset \in (SUBSET DOMAIN profiles) \ {{}} :
          profiles' = UpdateInactive(profiles, queryset)
    /\ resp' = AdminResponse("make_inactive", "info")
    /\ UNCHANGED <<imageVars, comments, req, pipe, pcall, posts, inst>>

\* ------------------------------------------ export_resume_pdf (resume/views.py)
\* what may be raised inside the try: by the query (line 29), by
\* generate_resume_pdf, which re-raises whatever fails in it (line 36), and
\* by the header assignment for a name with a line break in it (line 41)
ExportFaults == {"", "DatabaseError", "LayoutError", "OSError", "BadHeaderError"}

\* what Django answers when a view raises
Propagated(view, exc) ==
    IF exc = "Http404" THEN Response(view, 404, {}, "page", exc)
    ELSE Response(view, 500, {}, "page", exc)

\* variation: the except clause catches only what the PDF library raises
ExportExcept_Narrow(exc) ==
    IF exc = "LayoutError"
    THEN Response("export_resume_pdf", 404, {}, "page", exc)
    ELSE Propagated("export_resume_pdf", exc)

\* lines 49-51: except Exception catches every one of them, Http404 included
ExportExcept(exc) == Response("export_resume_pdf", 404, {}, "page", exc)

\* lines 15-51
export_resume_pdf ==
    /\ NoRequestRunning
    /\ \E fault \in ExportFaults :
          LET active == OtherActive(profiles, NoPk)
              raised == IF fault = "DatabaseError" THEN fault
                        ELSE IF active = {} THEN "Http404"
                        ELSE fault
          IN  IF raised # ""
              THEN resp' = ExportExcept(raised)
              ELSE \E pk \in active :
                      resp' = Response("export_resume_pdf", 200, {pk}, "attachment", "")
    /\ UNCHANGED <<imageVars, comments, req, pipe, profiles, pcall, posts, inst>>

NextProfile ==
    \/ \E p \in SeqProcs : SaveProfileForm(p)
    \/ \E p \in SeqProcs : ProfileDeactivateOthers(p)
    \/ \E p \in SeqProcs : ProfileWrite(p)
    \/ \E p \in SeqProcs : make_active(p)
    \/ make_inactive
    \/ export_resume_pdf

SpecProfile == InitSite /\ [][NextProfile]_vars

\* two request handlers: a save is called while another one is between its
\* update of the others (line 82) and its own write (line 83)
PendingInserts == {q \in Procs : pcall[q].pc # "idle" /\ pcall[q].pk = NoPk}

SaveProfileConcurrently(p) ==
    /\ pcall[p].pc = "idle"
    /\ \E pk \in DOMAIN profiles \cup {NoPk}, name \in Names, active \in BOOLEAN :
          /\ pk = NoPk =>
                Cardinality(DOMAIN profiles) + Cardinality(PendingInserts) < MaxProfiles
          /\ ProfileSaveCalled(p, pk, [full_name |-> name, is_active |-> active])
    /\ resp' = AdminResponse("change_form", "info")
    /\ UNCHANGED <<imageVars, comments, req, pipe, profiles, posts, inst>>

NextProfileConc ==
    \/ \E p \in Procs : SaveProfileConcurrently(p)
    \/ \E p \in Procs : ProfileDeactivateOthers(p)
    \/ \E p \in Procs : ProfileWrite(p)

SpecProfileConc == InitSite /\ [][NextProfileConc]_vars

\* ------------------------------------------------------ Post.save (models.py)
MaxTokens == 2      \* a markdown source has at most this many tokens
MaxSaves  == 2      \* an instance is saved at most this many times in a row

ALLOWED_HTML_TAGS ==
    {"p", "br", "hr", "h1", "h2", "h3", "h4", "h5", "h6",
     "strong", "em", "b", "i", "u", "s", "mark",
     "ul", "ol", "li", "blockquote", "pre", "code", "a", "img",
     "table", "thead", "tbody", "tr", "th", "td"}

ALLOWED_HTML_ATTRIBUTES(tag) ==
    IF tag = "a" THEN {"href", "title", "target", "rel"}
    ELSE IF tag = "img" THEN {"src", "alt", "title", "width", "height", "loading", "decoding"}
    ELSE {}

ALLOWED_HTML_PROTOCOLS == {"http", "https", "mailto"}

EXCERPT_LIMIT          == 500
META_DESCRIPTION_LIMIT == 160
META_TITLE_LIMIT       == 60

\* An attribute value is a URL or text: a scheme ("" when it has none) and the
\* rest.  An element is a tag ("#text" for bare text), its attributes and the
\* length of the text inside it; content is a sequence of elements.
Attr(name, scheme, rest) == [name |-> name, scheme |-> scheme, rest |-> rest]
Element(tag, attrs, len) == [tag |-> tag, attrs |-> attrs, len |-> len]

\* A markdown source is a sequence of tokens: white space, a paragraph of
\* text, a heading, bold text, a code span, a link or an image to a URL of
\* some scheme, or raw HTML of some tag.
Tok(t, arg) == [t |-> t, arg |-> arg]
Whitespace == Tok("ws", "")
MarkdownTokens ==
    {Whitespace, Tok("text", "short"), Tok("text", "long"), Tok("heading", ""),
     Tok("bold", ""), Tok("code", ""),
     Tok("link", "https"), Tok("link", "javascript"),
     Tok("image", "https"), Tok("image", "data"),
     Tok("html", "script")}

SeqsUpTo(S, n) == UNION {[1..k -> S] : k \in 0..n}
Markdowns == SeqsUpTo(MarkdownTokens, MaxTokens)

\* variation: the markdown is tested for blankness as it stands
StripMarkdown_None(tokens) == tokens

\* line 300: str.strip() removes the white space at both ends
StripMarkdown(tokens) ==
    LET kept == {k \in 1..Len(tokens) : tokens[k] # Whitespace}
    IN  IF kept = {} THEN <<>>
        ELSE SubSeq(tokens, CHOOSE k \in kept : \A m \in kept : k <= m,
                            CHOOSE k \in kept : \A m \in kept : k >= m)

\* lines 302-305, markdown.markdown: white space between blocks produces
\* nothing; URLs and raw HTML are passed on as they are
RenderToken(tok) ==
    CASE tok.t = "text"    -> Element("p", {}, IF tok.arg = "long" THEN 600 ELSE 5)
      [] tok.t = "heading" -> Element("h1", {}, 7)
      [] tok.t = "bold"    -> Element("strong", {}, 4)
      [] tok.t = "code"    -> Element("code", {}, 12)
      [] tok.t = "link"    -> Element("a", {Attr("href", tok.arg, "target")}, 5)
      [] tok.t = "image"   -> Element("img", {Attr("src", tok.arg, "target"),
                                              Attr("alt", "", "img")}, 0)
      [] tok.t = "html"    -> Element(tok.arg, {Attr("onload", "", "run")}, 8)

render_markdown(tokens) ==
    LET blocks == SelectSeq(tokens, LAMBDA tok : tok # Whitespace)
    IN  [k \in 1..Len(blocks) |-> RenderToken(blocks[k])]

\* bleach: the attributes whose values are URLs, and the test of a URL
\* against the allowed protocols (a URL without a scheme passes)
UriAttributes == {"href", "src"}

UriAllowed(a) == a.scheme = "" \/ a.scheme \in ALLOWED_HTML_PROTOCOLS

\* lines 306-312, bleach.clean(strip=True): a tag that is not allowed is
\* removed and its text kept; an attribute that is not allowed for its tag,
\* or whose URL has a protocol that is not allowed, is dropped
CleanElement(e) ==
    IF e.tag \notin ALLOWED_HTML_TAGS
    THEN Element("#text", {}, e.len)
    ELSE [e EXCEPT !.attrs =
             {a \in e.attrs : /\ a.name \in ALLOWED_HTML_ATTRIBUTES(e.tag)
                              /\ a.name \in UriAttributes => UriAllowed(a)}]

bleach_clean(elements) == [k \in 1..Len(elements) |-> CleanElement(elements[k])]

\* variation: content that is already there is kept
SavedContent_KeepExisting(i) ==
    LET markdown_content == StripMarkdown(i.content_markdown)
    IN  IF markdown_content # <<>> /\ i.content = <<>>
        THEN bleach_clean(render_markdown(markdown_content))
        ELSE i.content

\* lines 300-312
SavedContent(i) ==
    LET markdown_content == StripMarkdown(i.content_markdown)
    IN  IF markdown_content # <<>>
        THEN bleach_clean(render_markdown(markdown_content))
        ELSE i.content

\* line 314: the length of " ".join(strip_tags(content).split())
RECURSIVE SumLen(_)
SumLen(elements) ==
    IF elements = <<>> THEN 0 ELSE Head(elements).len + SumLen(Tail(elements))

PlainLen(content) ==
    LET words == SelectSeq(content, LAMBDA e : e.len > 0)
    IN  IF words = <<>> THEN 0 ELSE SumLen(words) + Len(words) - 1

\* variation: the cut keeps limit characters before the dots
Cut_KeepLimit(text, limit) ==
    IF text.len > limit THEN [len |-> limit + 3, ellipsis |-> TRUE] ELSE text

\* f"{text[:limit - 3]}..." if len(text) > limit else text
Cut(text, limit) ==
    IF text.len > limit THEN [len |-> (limit - 3) + 3, ellipsis |-> TRUE] ELSE text

\* line 298: slugify(title)
Slugify(title) == title.name

\* variation: every save of a published post stamps it anew
PostSaveFields_Restamp(i, t) ==
    LET content == SavedContent(i)
        plain   == PlainLen(content)
        excerpt == IF i.excerpt.len = 0 /\ plain > 0
                   THEN Cut(Text(plain), EXCERPT_LIMIT) ELSE i.excerpt
    IN  [i EXCEPT
            !.slug = IF i.slug = "" THEN Slugify(i.title) ELSE i.slug,
            !.content = content,
            !.excerpt = excerpt,
            !.meta_description =
                IF i.meta_description.len = 0 /\ excerpt.len > 0
                THEN Cut(excerpt, META_DESCRIPTION_LIMIT) ELSE i.meta_description,
            !.meta_title =
                IF i.meta_title.len = 0
                THEN Cut(Text(i.title.len), META_TITLE_LIMIT) ELSE i.meta_title,
            !.published_at =
                IF i.status = "published" THEN t ELSE i.published_at]

\* lines 297-341: the fields of the instance when super().save() is reached
PostSaveFields(i, t) ==
    LET content == SavedContent(i)
        plain   == PlainLen(content)
        excerpt == IF i.excerpt.len = 0 /\ plain > 0
                   THEN Cut(Text(plain), EXCERPT_LIMIT) ELSE i.excerpt
    IN  [i EXCEPT
            !.slug = IF i.slug = "" THEN Slugify(i.title) ELSE i.slug,
            !.content = content,
            !.excerpt = excerpt,
            !.meta_description =
                IF i.meta_description.len = 0 /\ excerpt.len > 0
                THEN Cut(excerpt, META_DESCRIPTION_LIMIT) ELSE i.meta_description,
            !.meta_title =
                IF i.meta_title.len = 0
                THEN Cut(Text(i.title.len), META_TITLE_LIMIT) ELSE i.meta_title,
            !.published_at =
                IF i.status = "published" /\ i.published_at = NoTime
                THEN t ELSE i.published_at]

\* the columns of an instance
RowOf(i) ==
    [title |-> i.title, slug |-> i.slug, status |-> i.status,
     published_at |-> i.published_at,
     content_markdown |-> i.content_markdown, content |-> i.content,
     excerpt |-> i.excerpt, meta_description |-> i.meta_description,
     meta_title |-> i.meta_title]

\* the slug column is unique
SlugTaken(rows, pk, slug) == \E k \in DOMAIN rows : k # pk /\ rows[k].slug = slug

\* lines 295-344: Post.save on the instance in memory; the insert or update
\* at line 344 raises IntegrityError when another row has the slug
PostSave ==
    /\ inst.loaded
    /\ inst.saves < MaxSaves
    /\ LET i == PostSaveFields(inst, now)
       IN  IF SlugTaken(posts, i.pk, i.slug)
           THEN /\ inst' = [i EXCEPT !.saves = MaxSaves]
                /\ resp' = Response("save", 500, {}, "error", "IntegrityError")
                /\ UNCHANGED posts
           ELSE /\ posts' = WriteRow(posts, i.pk, RowOf(i))
                /\ inst' = [i EXCEPT !.saves = @ + 1,
                                     !.pk = IF i.pk = NoPk \/ i.pk \notin DOMAIN posts
                                            THEN NextPk(posts) ELSE i.pk]
                /\ resp' = AdminResponse("save", "info")
    /\ UNCHANGED <<imageVars, comments, req, pipe, profiles, pcall>>

\* the instances an editor may build: any markdown source over legacy HTML
\* content that is empty, clean, or holds a script and a javascript: link
Titles == {[name |-> "hello", len |-> 5], [name |-> "a-long-title", len |-> 70]}

LegacyContents ==
    {<<>>,
     <<Element("p", {}, 14)>>,
     <<Element("script", {}, 8), Element("a", {Attr("href", "javascript", "target")}, 5)>>}

Statuses == {"draft", "published"}

\* the excerpt field of the form: left empty, or a summary of 200 characters
Excerpts == {Text(0), Text(200)}

NewInstances ==
    {[NoInstance EXCEPT !.loaded = TRUE, !.title = title, !.status = status,
                        !.content_markdown = md, !.content = content,
                        !.excerpt = excerpt] :
        title \in Titles, status \in Statuses,
        md \in Markdowns, content \in LegacyContents, excerpt \in Excerpts}

InitPostSave ==
    /\ ImageInit
    /\ backend = "fs"
    /\ pipe = IdlePipe
    /\ profiles = NoRows
    /\ pcall = [p \in Procs |-> IdleSave]
    /\ posts = NoRows
    /\ resp = NoResponse
    /\ inst \in NewInstances
    /\ comments = NoRows
    /\ req = NoRequest

NextPostSave ==
    \/ PostSave
    \/ Tick

SpecPostSave == InitPostSave /\ [][NextPostSave]_vars

\* ------------------------------------------------------- the public pages
MaxPosts == 2       \* the blog_post table holds at most this many rows

Slugs == {"first-post", "second-post"}

\* the posts an editor writes on the site: legacy content or a short
\* markdown text, under a slug of their choice, as a draft or published
SiteInstances ==
    {[NoInstance EXCEPT !.loaded = TRUE, !.title = [name |-> "hello", len |-> 5],
                        !.slug = slug, !.status = status,
                        !.content_markdown = md,
                        !.content = <<Element("p", {}, 14)>>] :
        slug \in Slugs, status \in Statuses,
        md \in {<<>>, <<Tok("text", "short")>>}}

\* the instance the change form builds for row pk: the row with the
\* submitted status
EditedInstance(pk, status) ==
    LET row == posts[pk]
    IN  [NoInstance EXCEPT !.loaded = TRUE, !.pk = pk, !.title = row.title,
                           !.slug = row.slug, !.status = status,
                           !.published_at = row.published_at,
                           !.content_markdown = row.content_markdown,
                           !.content = row.content, !.excerpt = row.excerpt,
                           !.meta_description = row.meta_description,
                           !.meta_title = row.meta_title]

\* the admin's add and change forms for posts: the instance is built,
\* saved (models.py lines 295-344) and let go
SavePostForm ==
    /\ \E i0 \in {i \in SiteInstances : Cardinality(DOMAIN posts) < MaxPosts}
                  \cup {EditedInstance(pk, st) : pk \in DOMAIN posts, st \in Statuses} :
          LET i == PostSaveFields(i0, now)
          IN  IF SlugTaken(posts, i.pk, i.slug)
              THEN /\ resp' = Response("save", 500, {}, "error", "IntegrityError")
                   /\ UNCHANGED posts
              ELSE /\ posts' = WriteRow(posts, i.pk, RowOf(i))
                   /\ resp' = AdminResponse("save", "info")
    /\ UNCHANGED <<imageVars, comments, req, pipe, profiles, pcall, inst>>

\* QuerySet.update(status=status) on the rows in pks
UpdateStatus(rows, pks, status) ==
    [k \in DOMAIN rows |->
        IF k \in pks THEN [rows[k] EXCEPT !.status = status] ELSE rows[k]]

\* blog/admin.py lines 136-140
make_published ==
    /\ \E queryset \in (SUBSET DOMAIN posts) \ {{}} :
          posts' = UpdateStatus(posts, queryset, "published")
    /\ resp' = AdminResponse("make_published", "info")
    /\ UNCHANGED <<imageVars, comments, req, pipe, profiles, pcall, inst>>

\* blog/admin.py lines 142-146
make_draft ==
    /\ \E queryset \in (SUBSET DOMAIN posts) \ {{}} :
          posts' = UpdateStatus(posts, queryset, "draft")
    /\ resp' = AdminResponse("make_draft", "info")
    /\ UNCHANGED <<imageVars, comments, req, pipe, profiles, pcall, inst>>

\* Post.objects.filter(status="published")
PublishedPosts(rows) == {k \in DOMAIN rows : rows[k].status = "published"}

\* one way to take the first n of pks by descending published_at
FirstByDate(rows, pks, n) ==
    {S \in SUBSET pks :
        /\ Cardinality(S) = IF Cardinality(pks) < n THEN Cardinality(pks) ELSE n
        /\ \A a \in S, b \in pks \ S : rows[a].published_at >= rows[b].published_at}

PageResponse(view, shown) == Response(view, 200, shown, "page", "")

\* blog/views.py lines 15-57: one page of ten
post_list ==
    /\ \E page \in FirstByDate(posts, PublishedPosts(posts), 10) :
          resp' = PageResponse("post_list", page)
    /\ UNCHANGED <<imageVars, comments, req, pipe, profiles, pcall, posts, inst>>

\* config/views.py lines 28-33
home ==
    /\ \E recent_posts \in FirstByDate(posts, PublishedPosts(posts), 3) :
          resp' = PageResponse("home", recent_posts)
    /\ UNCHANGED <<imageVars, comments, req, pipe, profiles, pcall, posts, inst>>

\* config/sitemaps.py lines 23-24
BlogPostSitemap ==
    /\ resp' = PageResponse("sitemap", PublishedPosts(posts))
    /\ UNCHANGED <<imageVars, comments, req, pipe, profiles, pcall, posts, inst>>

\* variation: the post is looked up by its slug alone
DetailMatches_AnyStatus(rows, slug) ==
    {k \in DOMAIN rows : rows[k].slug = slug}

\* blog/views.py lines 69-73
DetailMatches(rows, slug) ==
    {k \in DOMAIN rows : rows[k].slug = slug /\ rows[k].status = "published"}

\* models.py lines 356-368: the published post next after, and next before,
\* the given one by published_at
get_next_post(rows, pk) ==
    LET later == {k \in PublishedPosts(rows) :
                     rows[k].published_at > rows[pk].published_at}
    IN  {k \in later : \A m \in later : rows[k].published_at <= rows[m].published_at}

get_previous_post(rows, pk) ==
    LET earlier == {k \in PublishedPosts(rows) :
                       rows[k].published_at # NoTime
                       /\ rows[k].published_at < rows[pk].published_at}
    IN  {k \in earlier : \A m \in earlier : rows[k].published_at >= rows[m].published_at}

\* blog/views.py lines 60-86; a comparison against a null published_at
\* (lines 358-361) is refused by the query builder with ValueError
post_detail ==
    /\ \E slug \in Slugs :
          LET found == DetailMatches(posts, slug)
          IN  IF found = {}
              THEN resp' = [Propagated("post_detail", "Http404") EXCEPT !.arg = slug]
              ELSE \E pk \in found :
                     IF posts[pk].published_at = NoTime
                     THEN resp' = [Propagated("post_detail", "ValueError")
                                      EXCEPT !.arg = slug]
                     ELSE \E next_post \in SUBSET get_next_post(posts, pk),
                             previous_post \in SUBSET get_previous_post(posts, pk) :
                            /\ Cardinality(next_post) =
                                   IF get_next_post(posts, pk) = {} THEN 0 ELSE 1
                            /\ Cardinality(previous_post) =
                                   IF get_previous_post(posts, pk) = {} THEN 0 ELSE 1
                            /\ resp' = [PageResponse("post_detail",
                                                     {pk} \cup next_post \cup previous_post)
                                           EXCEPT !.arg = slug]
    /\ UNCHANGED <<imageVars, comments, req, pipe, profiles, pcall, posts, inst>>

NextSite ==
    \/ SavePostForm
    \/ make_published
    \/ make_draft
    \/ post_list
    \/ home
    \/ BlogPostSitemap
    \/ post_detail
    \/ Tick

SpecSite == InitSite /\ [][NextSite]_vars

\* ----------------------------------------------------- Comment (models.py)
MaxComments == 2    \* the blog_comment table holds at most this many rows

\* a post of the site as its row: saved once at time 0
SitePost(slug, status) ==
    RowOf(PostSaveFields(
        [NoInstance EXCEPT !.loaded = TRUE, !.title = [name |-> "hello", len |-> 5],
                           !.slug = slug, !.status = status,
                           !.content = <<Element("p", {}, 14)>>], 0))

\* a site with one published post and one draft, and no comment yet
InitComments ==
    /\ ImageInit
    /\ backend = "fs"
    /\ pipe = IdlePipe
    /\ profiles = NoRows
    /\ pcall = [p \in Procs |-> IdleSave]
    /\ posts = <<SitePost("first-post", "published"), SitePost("second-post", "draft")>>
    /\ inst = NoInstance
    /\ comments = NoRows
    /\ req = NoRequest
    /\ resp = NoResponse

MethodResponse(method, pk) == Response(method, 200, {pk}, "method", "")

\* lines 455-459: is_approved defaults to False; auto_now stamps updated_at
NewComment(post, content, t) ==
    [post |-> post, content |-> content, is_approved |-> FALSE, updated_at |-> t]

\* Comment.objects.create(post=..., content=...)
CreateComment ==
    /\ Cardinality(DOMAIN comments) < MaxComments
    /\ \E post \in DOMAIN posts :
          comments' = WriteRow(comments, NoPk, NewComment(post, "as written", now))
    /\ resp' = MethodResponse("create", NextPk(comments))
    /\ UNCHANGED <<imageVars, pipe, profiles, pcall, posts, inst, req>>

\* the instances of row pk a caller may hold: the row as it is, or a copy
\* that has gone stale or was changed in memory
CommentInstances(pk) ==
    {[comments[pk] EXCEPT !.content = content, !.is_approved = approved] :
        content \in {comments[pk].content, "changed in memory"},
        approved \in BOOLEAN}

\* variation: save() without update_fields writes every column
SaveUpdateFields_AllFields(rows, pk, instance, fields, t) ==
    [rows EXCEPT ![pk] = [instance EXCEPT !.updated_at = t]]

\* Model.save(update_fields=fields): only the named columns are written;
\* auto_now gives updated_at the current time
SaveUpdateFields(rows, pk, instance, fields, t) ==
    [rows EXCEPT ![pk] =
        [f \in DOMAIN rows[pk] |->
            IF f \notin fields THEN rows[pk][f]
            ELSE IF f = "updated_at" THEN t
            ELSE instance[f]]]

\* lines 505-508
approve ==
    /\ \E pk \in DOMAIN comments : \E comment \in CommentInstances(pk) :
          /\ comments' = SaveUpdateFields(comments, pk, [comment EXCEPT !.is_approved = TRUE],
                                          {"is_approved", "updated_at"}, now)
          /\ resp' = MethodResponse("approve", pk)
    /\ UNCHANGED <<imageVars, pipe, profiles, pcall, posts, inst, req>>

\* lines 510-513
unapprove ==
    /\ \E pk \in DOMAIN comments : \E comment \in CommentInstances(pk) :
          /\ comments' = SaveUpdateFields(comments, pk, [comment EXCEPT !.is_approved = FALSE],
                                          {"is_approved", "updated_at"}, now)
          /\ resp' = MethodResponse("unapprove", pk)
    /\ UNCHANGED <<imageVars, pipe, profiles, pcall, posts, inst, req>>

\* QuerySet.update(is_approved=approved) on the rows in pks
UpdateApproved(rows, pks, approved) ==
    [k \in DOMAIN rows |->
        IF k \in pks THEN [rows[k] EXCEPT !.is_approved = approved] ELSE rows[k]]

\* blog/admin.py lines 218-222
approve_comments ==
    /\ \E queryset \in (SUBSET DOMAIN comments) \ {{}} :
          comments' = UpdateApproved(comments, queryset, TRUE)
    /\ resp' = AdminResponse("approve_comments", "info")
    /\ UNCHANGED <<imageVars, pipe, profiles, pcall, posts, inst, req>>

\* blog/admin.py lines 224-228
unapprove_comments ==
    /\ \E queryset \in (SUBSET DOMAIN comments) \ {{}} :
          comments' = UpdateApproved(comments, queryset, FALSE)
    /\ resp' = AdminResponse("unapprove_comments", "info")
    /\ UNCHANGED <<imageVars, pipe, profiles, pcall, posts, inst, req>>

\* variation: every comment of the post is counted
comment_count_All(rows, post) ==
    Cardinality({k \in DOMAIN rows : rows[k].post = post})

\* lines 351-354: self.comments.filter(is_approved=True).count()
comment_count(rows, post) ==
    Cardinality({k \in DOMAIN rows : rows[k].post = post /\ rows[k].is_approved})

\* a page lists the posts that have approved comments
ReadCommentCounts ==
    /\ resp' = Response("comment_count", 200,
                        {post \in DOMAIN posts : comment_count(comments, post) > 0},
                        "page", "")
    /\ UNCHANGED <<imageVars, pipe, profiles, pcall, posts, inst, comments, req>>

NextComments ==
    \/ CreateComment
    \/ approve
    \/ unapprove
    \/ approve_comments
    \/ unapprove_comments
    \/ ReadCommentCounts
    \/ Tick

SpecComments == InitComments /\ [][NextComments]_vars

\* ------------------------------------------------ the canonical host
\* config/middleware.py.  Hosts, paths and URLs are strings, kept as
\* sequences of characters.

MaxHops == 2        \* a client follows at most MaxHops redirects of one request

HostA == <<"a", ".", "i", "o">>
HostAUpper == <<"A", ".", "I", "O">>
HostAPort == <<"a", ".", "i", "o", ":", "8", "0">>
HostB == <<"b", ".", "i", "o">>
HostBPort == <<"b", ".", "i", "o", ":", "8", "0">>

\* the CANONICAL_HOST setting: unset, a host name, or a host name with a port
CanonicalHosts == {<<>>, HostA, HostAUpper, HostAPort}

\* the Host header of a request
RequestHosts == {HostA, HostAUpper, HostAPort, HostB, HostBPort}

HealthPath == <<"/", "h", "e", "a", "l", "t", "h", "/">>
EXEMPT_PATHS == {HealthPath}
RequestPaths == {HealthPath, <<"/", "h", "e", "a", "l", "t", "h">>, <<"/", "b", "/">>}
QueryStrings == {<<>>, <<"p", "=", "2">>}

\* str.lower() on the letters that occur in the hosts
LowerChar(ch) ==
    CASE ch = "A" -> "a"
      [] ch = "B" -> "b"
      [] ch = "I" -> "i"
      [] ch = "O" -> "o"
      [] OTHER -> ch

Lower(s) == [k \in 1..Len(s) |-> LowerChar(s[k])]

\* the first position of ch in s, 0 when there is none
IndexOf(s, ch) ==
    IF \E k \in 1..Len(s) : s[k] = ch
    THEN CHOOSE k \in 1..Len(s) : s[k] = ch /\ \A j \in 1..(k - 1) : s[j] # ch
    ELSE 0

\* s.split(ch)[0]
SplitFirst(s, ch) == IF IndexOf(s, ch) = 0 THEN s ELSE SubSeq(s, 1, IndexOf(s, ch) - 1)

\* request.get_full_path(): the path, and "?" and the query string when
\* there is one
get_full_path(r) == IF r.query = <<>> THEN r.path ELSE r.path \o <<"?">> \o r.query

\* request.scheme
SchemeOf(r) == IF r.secure THEN <<"h", "t", "t", "p", "s">> ELSE <<"h", "t", "t", "p">>

\* line 21: f"{scheme}://{canonical_host}{request.get_full_path()}"
RedirectUrl(scheme, host, full_path) == scheme \o <<":", "/", "/">> \o host \o full_path

\* what a client reads from a Location URL: the scheme before "://", the
\* host up to the next "/", the path up to "?" and the query after it
ParseUrl(url) ==
    LET colon  == IndexOf(url, ":")
        rest   == SubSeq(url, colon + 3, Len(url))
        slash  == IndexOf(rest, "/")
        host   == IF slash = 0 THEN rest ELSE SubSeq(rest, 1, slash - 1)
        pathq  == IF slash = 0 THEN <<"/">> ELSE SubSeq(rest, slash, Len(rest))
        mark   == IndexOf(pathq, "?")
    IN  [scheme |-> SubSeq(url, 1, colon - 1),
         host   |-> host,
         path   |-> IF mark = 0 THEN pathq ELSE SubSeq(pathq, 1, mark - 1),
         query  |-> IF mark = 0 THEN <<>> ELSE SubSeq(pathq, mark + 1, Len(pathq))]

InitCanonical ==
    /\ ImageInit
    /\ backend = "fs"
    /\ pipe = IdlePipe
    /\ profiles = NoRows
    /\ pcall = [p \in Procs |-> IdleSave]
    /\ posts = NoRows
    /\ inst = NoInstance
    /\ comments = NoRows
    /\ resp = NoResponse
    /\ \E canonical_host \in CanonicalHosts, debug \in BOOLEAN :
          req = [NoRequest EXCEPT !.CANONICAL_HOST = canonical_host, !.DEBUG = debug]

\* a request arrives
ReceiveRequest ==
    /\ req.stage = "none"
    /\ \E host \in RequestHosts, path \in RequestPaths, query \in QueryStrings,
          secure \in BOOLEAN :
          req' = [req EXCEPT !.stage = "received", !.host = host, !.path = path,
                             !.query = query, !.secure = secure,
                             !.answer = "none", !.location = <<>>, !.hops = 0]
    /\ UNCHANGED <<imageVars, pipe, profiles, pcall, posts, inst, comments, resp>>

\* lines 12-23: __call__
CanonicalHostAnswer(r) ==
    IF r.CANONICAL_HOST # <<>> /\ ~r.DEBUG
    THEN IF r.path \in EXEMPT_PATHS
         THEN [answer |-> "passed", location |-> <<>>]
         ELSE IF Lower(SplitFirst(r.host, ":")) # Lower(r.CANONICAL_HOST)
         THEN [answer |-> "redirect",
               location |-> RedirectUrl(SchemeOf(r), r.CANONICAL_HOST, get_full_path(r))]
         ELSE [answer |-> "passed", location |-> <<>>]
    ELSE [answer |-> "passed", location |-> <<>>]

CanonicalHostMiddleware ==
    /\ req.stage = "received"
    /\ req' = [req EXCEPT !.stage = "answered",
                          !.answer = CanonicalHostAnswer(req).answer,
                          !.location = CanonicalHostAnswer(req).location]
    /\ UNCHANGED <<imageVars, pipe, profiles, pcall, posts, inst, comments, resp>>

\* the client requests the URL of the Location header
FollowRedirect ==
    /\ req.stage = "answered"
    /\ req.answer = "redirect"
    /\ req.hops < MaxHops
    /\ LET to == ParseUrl(req.location)
       IN  req' = [req EXCEPT !.stage = "received", !.host = to.host, !.path = to.path,
                              !.query = to.query,
                              !.secure = (to.scheme = <<"h", "t", "t", "p", "s">>),
                              !.answer = "none", !.location = <<>>, !.hops = @ + 1]
    /\ UNCHANGED <<imageVars, pipe, profiles, pcall, posts, inst, comments, resp>>

\* the exchange is over
CloseRequest ==
    /\ req.stage = "answered"
    /\ req' = [NoRequest EXCEPT !.CANONICAL_HOST = req.CANONICAL_HOST, !.DEBUG = req.DEBUG]
    /\ UNCHANGED <<imageVars, pipe, profiles, pcall, posts, inst, comments, resp>>

NextCanonical ==
    \/ ReceiveRequest
    \/ CanonicalHostMiddleware
    \/ FollowRedirect
    \/ CloseRequest

SpecCanonical == InitCanonical /\ [][NextCanonical]_vars

\* ================================================================== claims
Active(c) == c.pc # "idle" /\ c.vfn # <<>>

SaveOps(c)   == SelectSeq(c.ops, LAMBDA o : o[1] = "save")
DeleteOps(c) == SelectSeq(c.ops, LAMBDA o : o[1] = "delete")

\* C1: a call in which a step of the regeneration failed (build, the second
\* exists, delete or save) ends without raising and with the URL of the
\* original source, not with the derived URL.
C1_FailureFallsBack ==
    \A p \in Procs :
        (call[p].pc = "done" /\ call[p].failedAt # "none") =>
            /\ call[p].result = <<BaseUrl>> \o call[p].image.name
            /\ call[p].result # <<BaseUrl>> \o call[p].vfn
            /\ call[p].result[1] # "raise:"

\* a call whose save failed after it had deleted the stale derived file
C1_Witness ==
    \E p \in Procs :
        /\ call[p].pc = "done"
        /\ call[p].failedAt = "save"
        /\ Len(call[p].ops) = 1

\* C2: a call whose image is absent or has an empty name returns "" at once
\* and issues no save and no delete.
C2_AbsentIsNoOp ==
    \A p \in Procs :
        (call[p].pc # "idle" /\ call[p].via = "resolve"
            /\ (~call[p].image.truthy \/ call[p].image.name = <<>>)) =>
            /\ call[p].pc = "done"
            /\ call[p].result = <<>>
            /\ call[p].ops = <<>>
            /\ call[p].vfn = <<>>

\* a call with a truthy image object whose name is empty has returned
C2_Witness ==
    \E p \in Procs :
        /\ call[p].pc = "done"
        /\ call[p].via = "resolve"
        /\ call[p].image = EmptyNameImage

C4_InjectiveNames ==
    \A p \in Procs :
        (nameOf # <<>> /\ Active(call[p])) =>
            (call[p].vfn = nameOf[1].name <=> KeyOf(call[p]) = nameOf[1].key)

\* C5: on a backend without path introspection a call that found the derived
\* file neither regenerates nor touches the storage and returns the derived
\* URL; a call that found it missing builds it and, unless a step fails, has
\* saved it under the derived name before it returns.
C5_ExistenceIsAuthoritative ==
    backend # "fs" =>
        \A p \in Procs :
            LET c == call[p]
            IN  (Active(c) /\ c.pc \notin {"exists", "older"}) =>
                    IF c.miss
                    THEN \/ c.pc \in {"build", "exists2", "delete", "save"}
                         \/ c.failedAt # "none"
                         \/ /\ c.pc \in {"return", "done"}
                            /\ c.ops = << <<"save", c.vfn>> >>
                            /\ c.vfn \in DOMAIN files
                            /\ files[c.vfn].content = c.built
                    ELSE /\ c.pc \in {"return", "done"}
                         /\ c.failedAt = "none"
                         /\ c.ops = <<>>
                         /\ c.pc = "done" => c.result = <<BaseUrl>> \o c.vfn

\* on a backend whose path() raises, a call has returned the derived URL of
\* an existing file that is older than its source, without regenerating
C5_Witness ==
    /\ backend = "path_raises"
    /\ \E p \in Procs :
          /\ call[p].pc = "done"
          /\ Active(call[p])
          /\ ~call[p].miss
          /\ call[p].ops = <<>>
          /\ call[p].vfn \in DOMAIN files
          /\ files[call[p].vfn].mtime < files[call[p].image.name].mtime

\* C6: on a filesystem backend the mtime test sends a call to the rebuild
\* exactly when the derived file's mtime is earlier than the source's; a call
\* that rebuilt a stale file returns after a delete and then a save of the
\* derived name, and a call that found the file not older issued nothing.
C6_StalenessTriggersRebuild ==
    [][\A p \in Procs :
        LET c == call[p]
            d == call'[p]
        IN  /\ (backend = "fs" /\ c.pc = "older" /\ d.pc # "older"
                    /\ c.vfn \in DOMAIN files /\ c.image.name \in DOMAIN files) =>
                   d.pc = IF files[c.vfn].mtime < files[c.image.name].mtime
                          THEN "build" ELSE "return"
            /\ (backend = "fs" /\ c.pc = "return" /\ d.pc = "done" /\ ~c.miss) =>
                   IF c.needs
                   THEN /\ c.ops = << <<"delete", c.vfn>>, <<"save", c.vfn>> >>
                        /\ files[c.vfn].content = c.built
                   ELSE c.ops = <<>>
      ]_vars

\* a call on a filesystem backend has replaced a stale derived file
C6_Witness ==
    /\ backend = "fs"
    /\ \E p \in Procs :
          /\ call[p].pc = "done"
          /\ ~call[p].miss
          /\ call[p].needs
          /\ Len(call[p].ops) = 2
          /\ call[p].result = StorageUrl(call[p].vfn)

\* C7: once a call for a key has returned the derived URL (the source not
\* having been replaced while it ran), and as long as only calls for that key
\* follow and no source is replaced, no step changes the stored files and
\* every such call returns the derived URL.
C7_Idempotent ==
    [][(settled # <<>> /\ settled' = settled) =>
          /\ files' = files
          /\ \A p \in Procs :
                (call[p].pc # "done" /\ call'[p].pc = "done") =>
                    call'[p].result = <<BaseUrl>> \o call'[p].vfn
      ]_vars

\* a further call for the settled key has returned on a filesystem backend
\* where the derived file is exactly as old as its re-uploaded source
C7_Witness ==
    /\ backend = "fs"
    /\ settled # <<>>
    /\ \E p \in Procs :
          /\ call[p].pc = "done"
          /\ KeyOf(call[p]) = settled[1]
          /\ call[p].ops = <<>>
          /\ ~call[p].miss
          /\ files[call[p].image.name].content.ver = MaxVer
          /\ files[call[p].vfn].mtime = files[call[p].image.name].mtime

\* C8: a call makes at most one save and at most one delete, both landing on
\* the derived name of its key, and a step of the call creates, changes or
\* removes no stored file other than the one under that name.
C8_OnlyTheDerivedFile ==
    [][\A p \in Procs :
        LET c == call[p]
            d == call'[p]
        IN  /\ Len(SaveOps(d)) <= 1
            /\ Len(DeleteOps(d)) <= 1
            /\ \A i \in 1..Len(d.ops) : d.ops[i][2] = d.vfn
            /\ (c # d) =>
                  /\ DOMAIN files' \ {d.vfn} = DOMAIN files \ {d.vfn}
                  /\ \A n \in DOMAIN files \ {d.vfn} : files'[n] = files[n]
      ]_vars

\* C9: two calls for the same key that both found the derived file missing
\* and in which no step failed both return the derived URL, and the storage
\* then holds, beyond what it held when they started, exactly the derived
\* file, with the bytes one of them built.
C9_RaceIsHarmless ==
    LET a == call[1]
        b == call[2]
    IN  (/\ a.pc = "done" /\ b.pc = "done"
         /\ Active(a) /\ Active(b) /\ KeyOf(a) = KeyOf(b)
         /\ a.miss /\ b.miss
         /\ a.failedAt = "none" /\ b.failedAt = "none") =>
            /\ a.result = <<BaseUrl>> \o a.vfn
            /\ b.result = <<BaseUrl>> \o a.vfn
            /\ DOMAIN files = a.dom0 \cup b.dom0 \cup {a.vfn}
            /\ files[a.vfn].content \in {a.built, b.built}

\* C10: a featured_image_card_url / featured_image_hero_url access on a post
\* with a featured image completes without raising and returns the URL of a
\* stored derived file, "card" at 800x450 and "hero" at 1600x900.
C10_PostVariantUrls ==
    \A p \in Procs :
        LET c == call[p]
        IN  (c.pc = "done" /\ c.via \in {"card", "hero"} /\ c.image.truthy) =>
                /\ c.result # <<>>
                /\ c.result[1] # "raise:"
                /\ c.size = (IF c.via = "card" THEN <<800, 450>> ELSE <<1600, 900>>)
                /\ Len(c.result) > 1
                /\ SubSeq(c.result, 2, Len(c.result)) \in DOMAIN files

\* C11: for every source size and every positive target size, the picture
\* that leaves the scale-and-crop step, and the one that is encoded, has
\* exactly the target's width and height; the crop never leaves the source
\* (the step never fails), so nothing is padded or left unfilled.
C11_ExactTargetSize ==
    /\ pipe.stage # "error"
    /\ pipe.stage \in {"fitted", "rgb", "encoded"} =>
           /\ pipe.image.width = pipe.target[1]
           /\ pipe.image.height = pipe.target[2]

\* an upscaled 1200x800 source, and a turned source whose proportions differ
\* from the target's, both encoded
C11_Witness ==
    /\ pipe.stage = "encoded"
    /\ pipe.source.orientation \in {5, 6, 7, 8}
    /\ pipe.source.width = 1200 /\ pipe.source.height = 800
    /\ pipe.target = FEATURED_IMAGE_HERO_SIZE
    /\ pipe.image.width = 1600 /\ pipe.image.height = 900

\* C14: after colour normalisation the picture is RGB without alpha; a
\* sample that was fully transparent in an alpha-mode or palette source is
\* white, an opaque sample keeps its colour, and an RGB source is unchanged.
C14_TransparencyOnWhite ==
    pipe.stage \in {"rgb", "encoded"} =>
        /\ pipe.image.mode = "RGB"
        /\ pipe.image.px.a = 255
        /\ (pipe.source.px.a = 0) => pipe.image.px.rgb = "white"
        /\ (pipe.source.px.a = 255) => pipe.image.px.rgb = pipe.source.px.rgb

\* C12: with one call at a time and the source not replaced while the call
\* runs, a call that returns the derived URL returns it while the derived
\* file is in storage and, on a backend that exposes mtimes, while that
\* file's mtime is not earlier than the source's.
C12_DerivedUrlIsFresh ==
    [][\A p \in SeqProcs :
        LET c == call[p]
            d == call'[p]
        IN  (/\ c.pc = "return" /\ d.pc = "done"
             /\ d.result = StorageUrl(c.vfn)
             /\ c.image.name \in DOMAIN files'
             /\ files'[c.image.name].content.ver = c.srcVer) =>
                /\ StorageExists(files', c.vfn)
                /\ \/ backend # "fs"
                   \/ files'[c.vfn].mtime >= files'[c.image.name].mtime
      ]_vars

\* a call on a filesystem backend found no derived file for a source that
\* had been re-uploaded at a later time, wrote one and returned its URL
C12_Witness ==
    /\ backend = "fs"
    /\ \E p \in SeqProcs :
          /\ call[p].pc = "done"
          /\ call[p].miss
          /\ call[p].result = StorageUrl(call[p].vfn)
          /\ call[p].srcVer = 2
          /\ StorageExists(files, call[p].vfn)
          /\ files[call[p].image.name].mtime > 0
          /\ files[call[p].vfn].mtime >= files[call[p].image.name].mtime

\* C13: a call whose delete of the stale derived file failed has issued no
\* write and no removal, has left the stale file in storage with the content
\* and mtime it had, and has answered with the source's own URL.
C13_DeleteFailureFallsBack ==
    [][\A p \in SeqProcs :
        LET c == call[p]
            d == call'[p]
        IN  (c.pc = "delete" /\ d.pc = "done") =>
                /\ d.failedAt = "delete"
                /\ d.ops = <<>>
                /\ files' = files
                /\ StorageExists(files', c.vfn)
                /\ d.result = StorageUrl(c.image.name)
      ]_vars

\* a delete has failed on a stale derived file, which is still in storage
C13_Witness ==
    \E p \in SeqProcs :
        /\ call[p].pc = "done"
        /\ call[p].failedAt = "delete"
        /\ call[p].needs /\ ~call[p].miss
        /\ StorageExists(files, call[p].vfn)
        /\ call[p].result = StorageUrl(call[p].image.name)

ActiveProfiles == {k \in DOMAIN profiles : profiles[k].is_active}

\* C15: whenever no save is under way, at most one profile is active; and a
\* save of an instance with is_active set leaves that profile as the only
\* active one.
C15_AtMostOneActive ==
    /\ [](NoRequestRunning => Cardinality(ActiveProfiles) <= 1)
    /\ [][\A p \in SeqProcs :
            (pcall[p].pc = "write" /\ pcall'[p].pc = "idle" /\ pcall[p].is_active) =>
                \E k \in DOMAIN profiles' : ActiveProfiles' = {k}
         ]_vars

\* with one profile active, another was activated through the admin action
\* and is now the only active one of three
C15_Witness ==
    /\ NoRequestRunning
    /\ Cardinality(DOMAIN profiles) = MaxProfiles
    /\ resp = AdminResponse("make_active", "info")
    /\ ActiveProfiles = {2}

IsBlank(md) == \A k \in 1..Len(md) : md[k] = Whitespace

Saved(i, j) == j.saves = i.saves + 1

\* C16: a save of an instance whose content_markdown is empty or only white
\* space leaves the instance's content, and writes to the row, exactly the
\* content the instance held before the save.
C16_BlankMarkdownKeepsContent ==
    [][(Saved(inst, inst') /\ IsBlank(inst.content_markdown)) =>
          /\ inst'.content = inst.content
          /\ posts'[inst'.pk].content = inst.content
      ]_vars

\* white-space-only markdown over legacy content with a script in it, saved
C16_Witness ==
    /\ inst.saves >= 1
    /\ inst.content_markdown = <<Whitespace>>
    /\ \E k \in 1..Len(inst.content) : inst.content[k].tag = "script"
    /\ posts[inst.pk].content = inst.content

\* C17: a save of an instance with non-blank content_markdown sets content
\* to the cleaned rendering of the stripped markdown whatever content was
\* there: a heading comes out as h1, bold text as strong, no tag outside the
\* allowed ones remains; and a further save of the same instance leaves
\* content as it is.
C17_MarkdownReplacesContent ==
    [][(Saved(inst, inst') /\ ~IsBlank(inst.content_markdown)) =>
          LET blocks == SelectSeq(inst.content_markdown, LAMBDA tok : tok # Whitespace)
              out    == inst'.content
          IN  /\ out = bleach_clean(render_markdown(blocks))
              /\ Len(out) = Len(blocks)
              /\ \A k \in 1..Len(blocks) :
                    /\ blocks[k].t = "heading" => out[k].tag = "h1"
                    /\ blocks[k].t = "bold" => out[k].tag = "strong"
                    /\ out[k].tag \in ALLOWED_HTML_TAGS \cup {"#text"}
              /\ posts'[inst'.pk].content = out
              /\ inst.saves >= 1 => out = inst.content
      ]_vars

\* a heading and bold text saved twice over legacy content
C17_Witness ==
    /\ inst.saves = 2
    /\ inst.content_markdown = <<Tok("heading", ""), Tok("bold", "")>>
    /\ inst.content = <<Element("h1", {}, 7), Element("strong", {}, 4)>>

UnsafeSchemes == {"javascript", "data"}

UrlValues(content) ==
    {a \in UNION {content[k].attrs : k \in 1..Len(content)} : a.name \in UriAttributes}

\* C18: in content made from markdown, the element of every link with an
\* unsafe URL has href "#", that of every image with an unsafe URL has src
\* "#", and no URL of an unsafe scheme is in the content.
C18_UnsafeUrlsBecomeHash ==
    (inst.saves >= 1 /\ ~IsBlank(inst.content_markdown)) =>
        LET blocks == SelectSeq(inst.content_markdown, LAMBDA tok : tok # Whitespace)
        IN  /\ \A k \in 1..Len(blocks) :
                  /\ (blocks[k].t = "link" /\ blocks[k].arg \in UnsafeSchemes) =>
                         Attr("href", "", "#") \in inst.content[k].attrs
                  /\ (blocks[k].t = "image" /\ blocks[k].arg \in UnsafeSchemes) =>
                         Attr("src", "", "#") \in inst.content[k].attrs
            /\ \A a \in UrlValues(inst.content) : a.scheme \notin UnsafeSchemes

\* C19: the response of export_resume_pdf is a 404 page or a 200 with the
\* PDF as an attachment, never anything else; it is the 404 when no profile
\* is active and when anything was raised while the PDF was made, and the
\* attachment for the active profile otherwise.
C19_ExportIs404OrPdf ==
    resp.view = "export_resume_pdf" =>
        /\ resp.status \in {200, 404}
        /\ (ActiveProfiles = {} \/ resp.raised # "") =>
               resp.status = 404 /\ resp.disposition = "page"
        /\ (ActiveProfiles # {} /\ resp.raised = "") =>
               /\ resp.status = 200 /\ resp.disposition = "attachment"
               /\ resp.shown = ActiveProfiles

\* the PDF of an active profile could not be laid out
C19_Witness ==
    /\ resp.view = "export_resume_pdf"
    /\ resp.status = 404
    /\ resp.raised = "LayoutError"
    /\ ActiveProfiles = {2}

PublicViews == {"post_list", "home", "sitemap", "post_detail"}

\* C20: every post a public page shows is published, and post_detail for a
\* slug that no published post has (a draft's slug among them) answers 404.
C20_NoDraftIsShown ==
    resp.view \in PublicViews =>
        /\ \A pk \in resp.shown : posts[pk].status = "published"
        /\ (resp.view = "post_detail"
                /\ \E pk \in DOMAIN posts :
                      posts[pk].slug = resp.arg /\ posts[pk].status = "draft") =>
               resp.status = 404 /\ resp.shown = {}
        /\ resp.view \in {"post_list", "sitemap"} => resp.shown = PublishedPosts(posts)

\* with one post published and one a draft, the draft's detail page was
\* asked for
C20_Witness ==
    /\ resp.view = "post_detail"
    /\ resp.status = 404
    /\ \E d \in DOMAIN posts, q \in DOMAIN posts :
          /\ posts[d].slug = resp.arg
          /\ posts[d].status = "draft"
          /\ posts[q].status = "published"

\* C21: in a regenerating call nothing is deleted or saved before the
\* transform has produced bytes; the save of a call that found a derived
\* file comes after that call's delete of it; and a call whose transform
\* failed has issued nothing and left the storage, the stale derived file
\* included, as it was.
C21_TransformDeleteSave ==
    [][\A p \in SeqProcs :
        LET c == call[p]
            d == call'[p]
        IN  /\ Len(d.ops) > Len(c.ops) => c.built # NoContent
            /\ (c.pc = "save" /\ Len(d.ops) > Len(c.ops) /\ ~c.miss) =>
                   c.ops = << <<"delete", c.vfn>> >>
            /\ (c.pc = "delete" /\ Len(d.ops) > Len(c.ops)) => c.ops = <<>>
            /\ (c.pc = "build" /\ d.pc = "done") =>
                   /\ d.failedAt = "build"
                   /\ d.ops = <<>>
                   /\ files' = files
                   /\ ~c.miss => StorageExists(files', c.vfn)
      ]_vars

\* the transform of a call that found a stale derived file has failed, and
\* the stale file is still in storage
C21_Witness ==
    \E p \in SeqProcs :
        /\ call[p].pc = "done"
        /\ call[p].failedAt = "build"
        /\ call[p].needs /\ ~call[p].miss
        /\ call[p].ops = <<>>
        /\ StorageExists(files, call[p].vfn)

Contains(seq, sub) ==
    \E k \in 1..(Len(seq) - Len(sub) + 1) : SubSeq(seq, k, k + Len(sub) - 1) = sub

\* C22: an access to the card or hero URL of a post with an image ends with
\* the URL of a stored derived file whose name carries the post's focus
\* token, so that a changed focus resolves to another file than the one
\* cached for the old focus.
C22_FocusBustsCache ==
    \A p \in Procs :
        LET c == call[p]
        IN  (c.pc = "done" /\ c.via \in {"card", "hero"} /\ c.image.truthy) =>
                /\ c.result = StorageUrl(c.vfn)
                /\ StorageExists(files, c.vfn)
                /\ Contains(c.vfn, c.token)

PublishedAtBefore(pk) == IF pk \in DOMAIN posts THEN posts[pk].published_at ELSE NoTime

\* C23: a row's published_at, once set, is never changed; it becomes set
\* only by a save of the post as published, to the time of that save; a row
\* written by a save as published has it set, and a save as draft of a post
\* that has none leaves it empty.
C23_PublishedAtIsSetOnce ==
    [][\A pk \in DOMAIN posts' :
        LET old   == PublishedAtBefore(pk)
            new   == posts'[pk]
            saved == /\ resp' = AdminResponse("save", "info")
                     /\ (pk \notin DOMAIN posts \/ posts'[pk] # posts[pk])
        IN  /\ old # NoTime => new.published_at = old
            /\ (old = NoTime /\ new.published_at # NoTime) =>
                   saved /\ new.status = "published" /\ new.published_at = now
            /\ (saved /\ new.status = "published") => new.published_at # NoTime
            /\ (saved /\ new.status = "draft" /\ old = NoTime) =>
                   new.published_at = NoTime
      ]_vars

\* a post published at time 0 was saved as a draft at the latest time and
\* still carries its first timestamp
C23_Witness ==
    /\ resp = AdminResponse("save", "info")
    /\ now = MaxTime
    /\ \E pk \in DOMAIN posts :
          /\ posts[pk].status = "draft"
          /\ posts[pk].published_at = 0

ApprovedOf(post) == {k \in DOMAIN comments : comments[k].post = post /\ comments[k].is_approved}

\* C24: at all times the comment count of every post is the number of its
\* approved comments; a comment that appears in the table is unapproved;
\* approve() and unapprove() set is_approved of their comment and leave its
\* post and content, and every other comment, as they were.
C24_CountIsApprovedComments ==
    /\ [](/\ \A post \in DOMAIN posts :
               comment_count(comments, post) = Cardinality(ApprovedOf(post))
          /\ resp.view = "comment_count" =>
               resp.shown = {post \in DOMAIN posts : ApprovedOf(post) # {}})
    /\ [][/\ \A pk \in DOMAIN comments' \ DOMAIN comments : ~comments'[pk].is_approved
          /\ (resp'.view \in {"approve", "unapprove"} /\ comments' # comments) =>
                \A pk \in DOMAIN comments :
                    IF pk \in resp'.shown
                    THEN /\ comments'[pk].is_approved = (resp'.view = "approve")
                         /\ comments'[pk].post = comments[pk].post
                         /\ comments'[pk].content = comments[pk].content
                    ELSE comments'[pk] = comments[pk]
         ]_vars

\* of two comments on the published post one was approved by approve() at a
\* later time than it was written, and the count is 1
C24_Witness ==
    /\ resp.view = "approve"
    /\ Cardinality({k \in DOMAIN comments : comments[k].post = 1}) = 2
    /\ comment_count(comments, 1) = 1
    /\ \E k \in DOMAIN comments : comments[k].is_approved /\ comments[k].updated_at > 0

\* C25: the values Post.save generates stay within their limits: a generated
\* excerpt has at most 500 characters, a generated meta_description at most
\* 160, a generated meta_title at most 60; a source longer than the limit
\* comes out as limit - 3 characters and "...", a source within the limit is
\* copied as it is.
Generated(source, limit) ==
    IF source.len > limit
    THEN [len |-> (limit - 3) + 3, ellipsis |-> TRUE]
    ELSE source

C25_GeneratedWithinLimits ==
    [][Saved(inst, inst') =>
          LET plain == PlainLen(inst'.content)
          IN  /\ (inst.excerpt.len = 0 /\ plain > 0) =>
                    /\ inst'.excerpt = Generated(Text(plain), 500)
                    /\ inst'.excerpt.len <= 500
              /\ (inst.meta_description.len = 0 /\ inst'.excerpt.len > 0) =>
                    /\ inst'.meta_description = Generated(inst'.excerpt, 160)
                    /\ inst'.meta_description.len <= 160
              /\ inst.meta_title.len = 0 =>
                    /\ inst'.meta_title = Generated(Text(inst.title.len), 60)
                    /\ inst'.meta_title.len <= 60
              /\ posts'[inst'.pk].excerpt = inst'.excerpt
              /\ posts'[inst'.pk].meta_description = inst'.meta_description
              /\ posts'[inst'.pk].meta_title = inst'.meta_title
      ]_vars

\* a long body under a long title: all three values were cut
C25_Witness ==
    /\ inst.saves >= 1
    /\ inst.excerpt = [len |-> 500, ellipsis |-> TRUE]
    /\ inst.meta_description = [len |-> 160, ellipsis |-> TRUE]
    /\ inst.meta_title = [len |-> 60, ellipsis |-> TRUE]

\* a short body under a short title: the values are copies
C25_WitnessCopied ==
    /\ inst.saves >= 1
    /\ inst.excerpt.len \in 1..160 /\ ~inst.excerpt.ellipsis
    /\ inst.meta_description = inst.excerpt
    /\ inst.meta_title = Text(inst.title.len)

\* C26: the centering passed for a post is its stored focus over 100 on each
\* axis (kept here as hundredths) for a focus in 0..100, and lies in [0, 1]
\* for every stored focus.
C26_CenteringIsFocusFraction ==
    \A p \in Procs :
        LET c == call[p]
        IN  c.centering # <<>> =>
                \A axis \in 1..2 :
                    /\ c.centering[axis] \in 0..100
                    /\ c.focus[axis] \in 0..100 => c.centering[axis] = c.focus[axis]

\* C27: with CANONICAL_HOST set and DEBUG off, a request to a path that is
\* not exempt whose host, port removed and in lower case, is not the
\* canonical host is answered by a permanent redirect to the canonical host
\* with the same scheme, path and query; a request to /health/ is passed on; a
\* request on the canonical host, and every request when CANONICAL_HOST is
\* empty or DEBUG is on, is passed on; and the request a client makes by
\* following a redirect is not redirected.
C27_CanonicalRedirect ==
    req.stage = "answered" =>
        LET active  == req.CANONICAL_HOST # <<>> /\ ~req.DEBUG
            exempt  == req.path = HealthPath
            differs == Lower(SplitFirst(req.host, ":")) # Lower(req.CANONICAL_HOST)
        IN  /\ (active /\ ~exempt /\ differs) =>
                  /\ req.answer = "redirect"
                  /\ req.location = RedirectUrl(SchemeOf(req), req.CANONICAL_HOST,
                                                get_full_path(req))
            /\ (active /\ exempt) => req.answer = "passed"
            /\ (~active \/ ~differs \/ Lower(req.host) = Lower(req.CANONICAL_HOST)) =>
                  req.answer = "passed"
            /\ req.hops >= 1 => req.answer = "passed"

\* C28: with calls for one key running at once, a call that returns the
\* derived URL returns it while the derived file is in the storage.
C28_ReturnedWhileStored ==
    [][\A p \in Procs :
          (/\ call[p].pc # "done" /\ call'[p].pc = "done"
           /\ call'[p].result = StorageUrl(call'[p].vfn)) =>
              StorageExists(files', call'[p].vfn)
      ]_vars

\* C29: when saves of profiles run at once, two of them for different
\* profiles with is_active set among them, at most one profile is active
\* once every save has ended.
C29_OneActiveAfterConcurrentSaves ==
    NoRequestRunning => Cardinality(OtherActive(profiles, NoPk)) <= 1

\* C30: after any saves and any make_published / make_draft, every row whose
\* status is "published" has a published_at, and the detail page, which
\* compares published_at of the shown post with the others', is never
\* answered by an error for want of one.
C30_PublishedHasTimestamp ==
    /\ \A pk \in DOMAIN posts :
          posts[pk].status = "published" => posts[pk].published_at # NoTime
    /\ resp.view = "post_detail" => resp.raised # "ValueError"

====
